---- MODULE Spec2Model ----
(***************************************************************************)
(* Greyhound Bins: the fortnightly collection-date calculators of the     *)
(* three sensors (black, green_brown, next) and their async_update.       *)
(*                                                                         *)
(* A date is the number of days since 2026-01-01 (the black bin reference *)
(* date), so date subtraction `.days` is integer subtraction.  A datetime *)
(* is a record [date, tod]; tod = 0 is midnight (datetime.min.time()).    *)
(* None is the empty sequence, a present value x is <<x>>.                *)
(***************************************************************************)
EXTENDS Integers, Sequences, FiniteSets, TLC

\* ---------------------------------------------------------------- bounds
DaysBefore == 2       \* the clock starts this many days before 2026-01-01
DaysAfter == 15       \* the clock stops this many days after 2026-01-01
TicksPerDay == 2      \* clock readings per calendar day
MaxMidnights == 1     \* midnights the clock may pass inside one async_update

\* ------------------------------------------------------------- const.py
BLACK_BIN_REFERENCE_DATE == [date |-> 0, tod |-> 0]
BIN_TYPE_BLACK == "black"
BIN_TYPE_GREEN_BROWN == "green_brown"
COLLECTION_INTERVAL_DAYS == 14

BinTypes == {BIN_TYPE_BLACK, BIN_TYPE_GREEN_BROWN}
NEXT_SENSOR == "next"
Sensors == BinTypes \cup {NEXT_SENSOR}

None == <<>>
Some(x) == <<x>>
Val(o) == o[1]

\* ------------------------------------------------- datetime conversions
\* datetime.date(): strips the time of day
DateOf(dt) == dt.date
\* datetime.combine(d, datetime.min.time())
CombineMidnight(d) == [date |-> d, tod |-> 0]

IsLeap(y) == (y % 4 = 0) /\ ((y % 100 # 0) \/ (y % 400 = 0))
DaysInMonth(y, m) ==
    IF m = 2 THEN (IF IsLeap(y) THEN 29 ELSE 28)
    ELSE IF m \in {4, 6, 9, 11} THEN 30 ELSE 31

RECURSIVE CivilFrom(_, _, _)
\* calendar date that lies n days after the first day of month m of year y
CivilFrom(y, m, n) ==
    IF n < 0
    THEN LET py == IF m = 1 THEN y - 1 ELSE y
             pm == IF m = 1 THEN 12 ELSE m - 1
         IN  CivilFrom(py, pm, n + DaysInMonth(py, pm))
    ELSE IF n >= DaysInMonth(y, m)
    THEN CivilFrom(IF m = 12 THEN y + 1 ELSE y, IF m = 12 THEN 1 ELSE m + 1,
                   n - DaysInMonth(y, m))
    ELSE [year |-> y, month |-> m, day |-> n + 1]

Civil(d) == CivilFrom(2026, 1, d)

WeekdayNames ==
    <<"Monday", "Tuesday", "Wednesday", "Thursday", "Friday", "Saturday", "Sunday">>
MonthNames ==
    <<"January", "February", "March", "April", "May", "June", "July",
      "August", "September", "October", "November", "December">>

\* strftime("%A"): 2026-01-01 is a Thursday
StrfWeekday(dt) == WeekdayNames[((DateOf(dt) + 3) % 7) + 1]
\* strftime("%Y-%m-%d")
StrfIso(dt) == LET c == Civil(DateOf(dt)) IN <<c.year, c.month, c.day>>
\* strftime("%A, %d %B %Y")
StrfLong(dt) ==
    LET c == Civil(DateOf(dt)) IN <<StrfWeekday(dt), c.day, MonthNames[c.month], c.year>>

\* ------------------------------------------------------------ the state
VARIABLES
    now,              \* dt_util.now(): the wall clock, a datetime
    next_collection,  \* sensor -> self._next_collection (None or a datetime)
    bin_type,         \* sensor -> self._bin_type (None or a bin type)
    days_until,       \* sensor -> self._days_until (None or an integer)
    running,          \* None, or the async_update that has computed
                      \* _next_collection and not yet read the clock again:
                      \* [sensor, now_dt (the clock read by the calculation)]
    updated           \* sensors whose async_update has completed at least once

vars == <<now, next_collection, bin_type, days_until, running, updated>>

\* ------------------------------------- GreyhoundBinSensor (sensor.py 39)
\* variants of the calculation with one line changed
\* lines 100-101 dropped: the past candidate is never advanced
GreyhoundBinSensor_calculate_no_advance(self_bin_type, now_dt) ==
    LET now_date == DateOf(now_dt)
        reference == IF self_bin_type = BIN_TYPE_BLACK THEN 0 ELSE 7
        days_since_reference == now_date - reference
        cycles_passed == days_since_reference \div COLLECTION_INTERVAL_DAYS
    IN  CombineMidnight(IF days_since_reference < 0 THEN reference
                        ELSE reference + cycles_passed * COLLECTION_INTERVAL_DAYS)

\* line 100 with <= : a collection due today is advanced to the next cycle
GreyhoundBinSensor_calculate_advance_today(self_bin_type, now_dt) ==
    LET now_date == DateOf(now_dt)
        reference == IF self_bin_type = BIN_TYPE_BLACK THEN 0 ELSE 7
        days_since_reference == now_date - reference
        cycles_passed == days_since_reference \div COLLECTION_INTERVAL_DAYS
        candidate == reference + cycles_passed * COLLECTION_INTERVAL_DAYS
    IN  CombineMidnight(IF days_since_reference < 0 THEN reference
                        ELSE IF candidate <= now_date
                             THEN candidate + COLLECTION_INTERVAL_DAYS
                             ELSE candidate)

\* lines 81-85 dropped: every bin type uses the black reference
GreyhoundBinSensor_calculate_one_reference(self_bin_type, now_dt) ==
    LET now_date == DateOf(now_dt)
        reference == 0
        days_since_reference == now_date - reference
        cycles_passed == days_since_reference \div COLLECTION_INTERVAL_DAYS
        candidate == reference + cycles_passed * COLLECTION_INTERVAL_DAYS
    IN  CombineMidnight(IF days_since_reference < 0 THEN reference
                        ELSE IF candidate < now_date
                             THEN candidate + COLLECTION_INTERVAL_DAYS
                             ELSE candidate)

GreyhoundBinSensor_calculate_next_collection(self_bin_type, now_dt) ==
    LET now_date == DateOf(now_dt)
        reference_date == DateOf(BLACK_BIN_REFERENCE_DATE)
        reference == IF self_bin_type = BIN_TYPE_BLACK
                     THEN reference_date
                     ELSE reference_date + 7
        days_since_reference == now_date - reference
        cycles_passed == days_since_reference \div COLLECTION_INTERVAL_DAYS
        candidate == reference + cycles_passed * COLLECTION_INTERVAL_DAYS
        next_collection_date ==
            IF days_since_reference < 0 THEN reference
            ELSE IF candidate < now_date
                 THEN reference + (cycles_passed + 1) * COLLECTION_INTERVAL_DAYS
                 ELSE candidate
    IN  CombineMidnight(next_collection_date)

\* ----------------------------------- NextCollectionSensor (sensor.py 113)
\* the local next_black of NextCollectionSensor._calculate_next_collection
NextBlack(now_date) ==
    LET black_reference == DateOf(BLACK_BIN_REFERENCE_DATE)
        days_since_black == now_date - black_reference
        cycles_passed == days_since_black \div COLLECTION_INTERVAL_DAYS
        candidate == black_reference + cycles_passed * COLLECTION_INTERVAL_DAYS
    IN  IF days_since_black < 0 THEN black_reference
        ELSE IF candidate < now_date
             THEN black_reference + (cycles_passed + 1) * COLLECTION_INTERVAL_DAYS
             ELSE candidate

\* line 167 without the 7 day offset
NextGreenBrown_no_offset(now_date) ==
    LET days_since_green == now_date
        cycles_passed == days_since_green \div COLLECTION_INTERVAL_DAYS
        candidate == cycles_passed * COLLECTION_INTERVAL_DAYS
    IN  IF days_since_green < 0 THEN 0
        ELSE IF candidate < now_date THEN candidate + COLLECTION_INTERVAL_DAYS
             ELSE candidate

\* the local next_green_brown of NextCollectionSensor._calculate_next_collection
NextGreenBrown(now_date) ==
    LET green_brown_reference == DateOf(BLACK_BIN_REFERENCE_DATE) + 7
        days_since_green == now_date - green_brown_reference
        cycles_passed == days_since_green \div COLLECTION_INTERVAL_DAYS
        candidate == green_brown_reference + cycles_passed * COLLECTION_INTERVAL_DAYS
    IN  IF days_since_green < 0 THEN green_brown_reference
        ELSE IF candidate < now_date
             THEN green_brown_reference + (cycles_passed + 1) * COLLECTION_INTERVAL_DAYS
             ELSE candidate

\* line 179 with >= : the later of the two dates is returned
NextCollectionSensor_calculate_later(now_dt) ==
    LET now_date == DateOf(now_dt)
        next_black == NextBlack(now_date)
        next_green_brown == NextGreenBrown(now_date)
    IN  IF next_black >= next_green_brown
        THEN <<CombineMidnight(next_black), BIN_TYPE_BLACK>>
        ELSE <<CombineMidnight(next_green_brown), BIN_TYPE_GREEN_BROWN>>

\* returns the pair (datetime, bin type)
NextCollectionSensor_calculate_next_collection(now_dt) ==
    LET now_date == DateOf(now_dt)
        next_black == NextBlack(now_date)
        next_green_brown == NextGreenBrown(now_date)
    IN  IF next_black <= next_green_brown
        THEN <<CombineMidnight(next_black), BIN_TYPE_BLACK>>
        ELSE <<CombineMidnight(next_green_brown), BIN_TYPE_GREEN_BROWN>>

\* ------------------------------------------------------------ properties
\* native_value of both sensor classes: None or the formatted date
native_value(s) ==
    IF next_collection[s] # None THEN Some(StrfLong(Val(next_collection[s]))) ELSE None

\* line 61 testing self._days_until: 0 days counts as no data
GreyhoundBinSensor_extra_state_attributes_falsy_days(s) ==
    IF days_until[s] = None \/ days_until[s] = Some(0) THEN <<>>
    ELSE [days_until_collection |-> days_until[s],
          collection_date |-> StrfIso(Val(next_collection[s])),
          collection_day |-> StrfWeekday(Val(next_collection[s])),
          is_tomorrow |-> (days_until[s] = Some(1)),
          is_today |-> (days_until[s] = Some(0))]

\* extra_state_attributes of GreyhoundBinSensor: a mapping (a function on keys)
GreyhoundBinSensor_extra_state_attributes(s) ==
    IF next_collection[s] = None THEN <<>>
    ELSE [days_until_collection |-> days_until[s],
          collection_date |-> StrfIso(Val(next_collection[s])),
          collection_day |-> StrfWeekday(Val(next_collection[s])),
          is_tomorrow |-> (days_until[s] = Some(1)),
          is_today |-> (days_until[s] = Some(0))]

\* extra_state_attributes of NextCollectionSensor
NextCollectionSensor_extra_state_attributes(s) ==
    IF next_collection[s] = None THEN <<>>
    ELSE [bin_type |-> (IF bin_type[s] = Some(BIN_TYPE_BLACK)
                        THEN "Black Bin" ELSE "Green & Brown Bins"),
          days_until_collection |-> days_until[s],
          collection_date |-> StrfIso(Val(next_collection[s])),
          collection_day |-> StrfWeekday(Val(next_collection[s])),
          is_tomorrow |-> (days_until[s] = Some(1)),
          is_today |-> (days_until[s] = Some(0))]

extra_state_attributes(s) ==
    IF s = NEXT_SENSOR THEN NextCollectionSensor_extra_state_attributes(s)
    ELSE GreyhoundBinSensor_extra_state_attributes(s)

\* --------------------------------------------------------------- Init
\* the three sensors right after their constructors (async_setup_entry)
Init ==
    /\ now = [date |-> 0 - DaysBefore, tod |-> 0]
    /\ next_collection = [s \in Sensors |-> None]
    /\ bin_type = [s \in Sensors |-> IF s = NEXT_SENSOR THEN None ELSE Some(s)]
    /\ days_until = [s \in Sensors |-> None]
    /\ running = None
    /\ updated = {}

\* -------------------------------------------------------------- actions
\* the wall clock advances; inside an async_update it passes at most
\* MaxMidnights midnights
Tick ==
    /\ now' = IF now.tod + 1 < TicksPerDay
              THEN [now EXCEPT !.tod = now.tod + 1]
              ELSE [date |-> now.date + 1, tod |-> 0]
    /\ now'.date <= DaysAfter
    /\ running # None => now'.date - DateOf(Val(running).now_dt) <= MaxMidnights
    /\ UNCHANGED <<next_collection, bin_type, days_until, running, updated>>

\* GreyhoundBinSensor.async_update, line 108
GreyhoundBinSensor_async_update_calculate(s) ==
    /\ running = None
    /\ next_collection' = [next_collection EXCEPT
           ![s] = Some(GreyhoundBinSensor_calculate_next_collection(Val(bin_type[s]), now))]
    /\ running' = Some([sensor |-> s, now_dt |-> now])
    /\ UNCHANGED <<now, bin_type, days_until, updated>>

\* NextCollectionSensor.async_update, line 186
NextCollectionSensor_async_update_calculate ==
    /\ running = None
    /\ LET r == NextCollectionSensor_calculate_next_collection(now)
       IN  /\ next_collection' = [next_collection EXCEPT ![NEXT_SENSOR] = Some(r[1])]
           /\ bin_type' = [bin_type EXCEPT ![NEXT_SENSOR] = Some(r[2])]
    /\ running' = Some([sensor |-> NEXT_SENSOR, now_dt |-> now])
    /\ UNCHANGED <<now, days_until, updated>>

\* the days computed by lines 109-110 and 187-188
DaysUntil(next_dt, now_dt) == DateOf(next_dt) - DateOf(now_dt)

\* async_update of either class, lines 109-110 and 187-188: the second clock read
async_update_days_until ==
    /\ running # None
    /\ LET s == Val(running).sensor
       IN  /\ days_until' = [days_until EXCEPT
                  ![s] = Some(DaysUntil(Val(next_collection[s]), now))]
           /\ updated' = updated \cup {s}
    /\ running' = None
    /\ UNCHANGED <<now, next_collection, bin_type>>

Next ==
    \/ Tick
    \/ \E s \in BinTypes : GreyhoundBinSensor_async_update_calculate(s)
    \/ NextCollectionSensor_async_update_calculate
    \/ async_update_days_until

Spec == Init /\ [][Next]_vars

TypeOK ==
    /\ now.date \in (0 - DaysBefore)..DaysAfter
    /\ now.tod \in 0..(TicksPerDay - 1)
    /\ \A s \in Sensors : Len(next_collection[s]) <= 1 /\ Len(days_until[s]) <= 1

\* ------------------------------------------------------------- the claims
\* the async_update in progress, its sensor, the date its calculation read
\* and the date it returned (stored by line 108 / 186)
IsRunning(s) == running # None /\ Val(running).sensor = s
EvalDate == DateOf(Val(running).now_dt)
Returned(s) == DateOf(Val(next_collection[s]))
ReferenceOf(b) == IF b = BIN_TYPE_BLACK THEN 0 ELSE 7

\* C1: the date returned by GreyhoundBinSensor._calculate_next_collection is
\* on or after the evaluation date, for both bin categories.
C1_NotBeforeToday ==
    \A b \in BinTypes : IsRunning(b) => Returned(b) >= EvalDate

C1_Witness ==
    /\ IsRunning(BIN_TYPE_BLACK)
    /\ EvalDate = 0
    /\ Returned(BIN_TYPE_BLACK) = 0

\* C2: the returned date differs from the category's reference date (day 0
\* for black, day 7 for green_brown) by a non-negative multiple of 14 days,
\* and is the reference itself when the evaluation date is before it.
C2_OnLattice ==
    \A b \in BinTypes : IsRunning(b) =>
        /\ Returned(b) - ReferenceOf(b) >= 0
        /\ (Returned(b) - ReferenceOf(b)) % 14 = 0
        /\ EvalDate < ReferenceOf(b) => Returned(b) = ReferenceOf(b)

C2_Witness ==
    /\ IsRunning(BIN_TYPE_GREEN_BROWN)
    /\ EvalDate = 6
    /\ Returned(BIN_TYPE_GREEN_BROWN) = 7
    /\ BIN_TYPE_BLACK \in updated
    /\ Returned(BIN_TYPE_BLACK) = 14

\* C3: on or after the reference the returned date is the smallest lattice
\* date reference + 14*k (k >= 0) that is on or after the evaluation date,
\* so it is 0 to 13 days ahead.
C3_SmallestOnLattice ==
    \A b \in BinTypes : (IsRunning(b) /\ EvalDate >= ReferenceOf(b)) =>
        /\ Returned(b) >= EvalDate
        /\ \E k \in 0..(DaysAfter + 1) : Returned(b) = ReferenceOf(b) + 14 * k
        /\ ~ \E k \in 0..(DaysAfter + 1) :
               LET d == ReferenceOf(b) + 14 * k IN EvalDate <= d /\ d < Returned(b)
        /\ Returned(b) - EvalDate \in 0..13

C3_Witness ==
    /\ IsRunning(BIN_TYPE_BLACK)
    /\ EvalDate = 1
    /\ Returned(BIN_TYPE_BLACK) = 14

\* C4: evaluating again on the returned date, at any time of that day,
\* returns the same date.
C4_FixedPoint ==
    \A b \in BinTypes : IsRunning(b) =>
        \A t \in 0..(TicksPerDay - 1) :
            GreyhoundBinSensor_calculate_next_collection(
                b, [date |-> Returned(b), tod |-> t]) = Val(next_collection[b])

C4_Witness ==
    /\ IsRunning(BIN_TYPE_GREEN_BROWN)
    /\ EvalDate = 7
    /\ Val(running).now_dt.tod > 0
    /\ Returned(BIN_TYPE_GREEN_BROWN) = 7

Min(a, b) == IF a <= b THEN a ELSE b

\* C5: NextCollectionSensor._calculate_next_collection returns the minimum of
\* the dates GreyhoundBinSensor._calculate_next_collection returns for the
\* two categories on the same clock reading, with the category that owns the
\* date, black when the two dates are equal.
C5_MinOfBoth ==
    IsRunning(NEXT_SENSOR) =>
        LET nb == GreyhoundBinSensor_calculate_next_collection(
                      BIN_TYPE_BLACK, Val(running).now_dt)
            ng == GreyhoundBinSensor_calculate_next_collection(
                      BIN_TYPE_GREEN_BROWN, Val(running).now_dt)
            bt == Val(bin_type[NEXT_SENSOR])
        IN  /\ Returned(NEXT_SENSOR) = Min(DateOf(nb), DateOf(ng))
            /\ Val(next_collection[NEXT_SENSOR]) = (IF bt = BIN_TYPE_BLACK THEN nb ELSE ng)
            /\ bt \in BinTypes
            /\ DateOf(nb) = DateOf(ng) => bt = BIN_TYPE_BLACK

C5_Witness ==
    /\ IsRunning(NEXT_SENSOR)
    /\ EvalDate = 3
    /\ Returned(NEXT_SENSOR) = 7
    /\ bin_type[NEXT_SENSOR] = Some(BIN_TYPE_GREEN_BROWN)

\* C6: after every async_update the stored days_until is >= 0, whatever the
\* two clock reads of the update returned (the second not before the first).
C6_DaysUntilNonNegative ==
    \A s \in Sensors : days_until[s] # None => Val(days_until[s]) >= 0

AttributeKeys ==
    {"days_until_collection", "collection_date", "collection_day",
     "is_tomorrow", "is_today"}

C7_NoData(s) == native_value(s) = None /\ DOMAIN extra_state_attributes(s) = {}
C7_HasData(s) ==
    native_value(s) # None /\ AttributeKeys \subseteq DOMAIN extra_state_attributes(s)

\* C7: before a sensor's first async_update native_value is None and the
\* attributes are the empty mapping; in every state after an async_update
\* (updated only grows, so also during and after every later update)
\* native_value is not None and the attributes hold the five keys: a sensor
\* with data never returns to the no-data state.
C7_NoDataThenData ==
    \A s \in Sensors :
        /\ (s \notin updated /\ ~IsRunning(s)) => C7_NoData(s)
        /\ s \in updated => C7_HasData(s)

C7_Witness ==
    /\ running = None
    /\ BIN_TYPE_BLACK \in updated
    /\ days_until[BIN_TYPE_BLACK] = Some(0)
    /\ C7_HasData(BIN_TYPE_BLACK)
    /\ NEXT_SENSOR \in updated
    /\ C7_HasData(NEXT_SENSOR)
    /\ BIN_TYPE_GREEN_BROWN \notin updated
    /\ C7_NoData(BIN_TYPE_GREEN_BROWN)

\* C8: as the clock passes from one day to the next, from the black reference
\* date onward, every change of what
\* NextCollectionSensor._calculate_next_collection returns moves the date
\* forward by exactly 7 days and switches the category.
C8_WeeklyAlternation ==
    [][(now.date >= 0 /\ now'.date = now.date + 1) =>
          LET a == NextCollectionSensor_calculate_next_collection(now)
              b == NextCollectionSensor_calculate_next_collection(now')
          IN  a # b => /\ DateOf(b[1]) = DateOf(a[1]) + 7
                       /\ b[2] # a[2]]_vars

C8_Witness ==
    /\ now.date = 8
    /\ now.tod = 0
    /\ running = None
    /\ next_collection[NEXT_SENSOR] = Some(CombineMidnight(7))
    /\ bin_type[NEXT_SENSOR] = Some(BIN_TYPE_GREEN_BROWN)
    /\ days_until[NEXT_SENSOR] = Some(0)
    /\ NextCollectionSensor_calculate_next_collection(now)
           = <<CombineMidnight(14), BIN_TYPE_BLACK>>

\* C9: the next black date and the next green_brown date computed inside
\* NextCollectionSensor._calculate_next_collection are exactly 7 days apart,
\* also before either reference, so black is returned only when its date is
\* strictly earlier.
C9_SevenApart ==
    IsRunning(NEXT_SENSOR) =>
        LET nb == NextBlack(EvalDate)
            ng == NextGreenBrown(EvalDate)
        IN  /\ (nb - ng = 7 \/ ng - nb = 7)
            /\ bin_type[NEXT_SENSOR] = Some(BIN_TYPE_BLACK) => nb < ng

C9_Witness ==
    /\ IsRunning(NEXT_SENSOR)
    /\ EvalDate < 0
    /\ NextBlack(EvalDate) = 0
    /\ NextGreenBrown(EvalDate) = 7
    /\ bin_type[NEXT_SENSOR] = Some(BIN_TYPE_BLACK)

\* C10: with a clock that never moves backwards, the stored next collection
\* date of a sensor never decreases, and it changes only in an update whose
\* evaluation date is later than the date stored before.
C10_MonotoneStored ==
    [][\A s \in Sensors :
          (next_collection[s] # None /\ next_collection'[s] # next_collection[s]) =>
              /\ next_collection'[s] # None
              /\ DateOf(Val(next_collection'[s])) > DateOf(Val(next_collection[s]))
              /\ DateOf(now) > DateOf(Val(next_collection[s]))]_vars

C10_Witness ==
    /\ IsRunning(BIN_TYPE_BLACK)
    /\ BIN_TYPE_BLACK \in updated
    /\ days_until[BIN_TYPE_BLACK] = Some(1)
    /\ EvalDate = 1
    /\ Returned(BIN_TYPE_BLACK) = 14
====
